---- MODULE Spec2Model ----
(***************************************************************************)
(* Order PDF generator (main.py): a Tk form starts one background worker   *)
(* per "Generate PDFs" click; the worker reads a CSV export, validates its *)
(* columns and renders one PDF per row, polling the global stop_requested  *)
(* flag between rows.                                                      *)
(*                                                                         *)
(* Python strings are modelled as sequences of one-character strings, so   *)
(* that strip(), str() and re.sub() are computed character by character.   *)
(***************************************************************************)
EXTENDS Integers, Sequences, FiniteSets, TLC

(***************************************************************************)
(* Bounds of the model.                                                    *)
(***************************************************************************)
\* longest CSV (number of data rows) the form is pointed at
MaxRows == 3
\* most worker threads alive at the same time
MaxWorkers == 2
\* longest cell text / raw file name drawn for the pure-function harness
MaxLen == 3

(***************************************************************************)
(* Strings.                                                                *)
(***************************************************************************)
Space == " "

\* characters str.strip() removes at both ends
Whitespace == {Space, "\t", "\n"}

RECURSIVE LStrip(_)
LStrip(s) ==
    IF s # <<>> /\ Head(s) \in Whitespace THEN LStrip(Tail(s)) ELSE s

RECURSIVE RStrip(_)
RStrip(s) ==
    IF s # <<>> /\ s[Len(s)] \in Whitespace
    THEN RStrip(SubSeq(s, 1, Len(s) - 1))
    ELSE s

\* str.strip()
Strip(s) == RStrip(LStrip(s))

Digit(d) == <<"0", "1", "2", "3", "4", "5", "6", "7", "8", "9">>[d + 1]

\* str(n) for a non-negative int
RECURSIVE DecStr(_)
DecStr(n) ==
    IF n < 10 THEN <<Digit(n)>> ELSE DecStr(n \div 10) \o <<Digit(n % 10)>>

(***************************************************************************)
(* Cells of a DataFrame read by pd.read_csv: a text cell is a str, an      *)
(* empty cell is the float NaN, a cell of an all-digits column is an int.  *)
(***************************************************************************)
StrCell(s) == [k |-> "str", s |-> s, n |-> 0]
NaN        == [k |-> "nan", s |-> <<>>, n |-> 0]
IntCell(n) == [k |-> "int", s |-> <<>>, n |-> n]

\* str(value)
Str(c) ==
    CASE c.k = "str" -> c.s
      [] c.k = "nan" -> <<"n", "a", "n">>
      [] c.k = "int" -> DecStr(c.n)

\* dict.get(key, "") / Series.get(key, "")
Get(data, key) == IF key \in DOMAIN data THEN data[key] ELSE StrCell(<<>>)

FirstName == "First Name (Billing)"
LastName  == "Last Name (Billing)"
OrderNo   == "Order Number"
ItemName  == "Item Name"

(***************************************************************************)
(* sanitize_filename: re.sub over the character class of invalid_chars.    *)
(***************************************************************************)
invalid_chars == {"\\", "/", ":", "*", "?", "\"", "<", ">", "|"}

\* a plausible slip: only the first invalid character is replaced (count=1)
RECURSIVE sanitize_first_only(_)
sanitize_first_only(filename) ==
    IF filename = <<>> THEN <<>>
    ELSE IF Head(filename) \in invalid_chars THEN <<"_">> \o Tail(filename)
    ELSE <<Head(filename)>> \o sanitize_first_only(Tail(filename))

sanitize_filename(filename) ==
    [i \in 1..Len(filename) |->
        IF filename[i] \in invalid_chars THEN "_" ELSE filename[i]]

(***************************************************************************)
(* generate_pdf, lines 124-125: the combined name.  .strip() is called on  *)
(* the raw dict value, so a value that is not a str raises AttributeError, *)
(* which generate_pdf reports and re-raises.                               *)
(***************************************************************************)
Raised == [ok |-> FALSE, v |-> <<>>]
Value(s) == [ok |-> TRUE, v |-> s]

full_name(data) ==
    LET first == Get(data, FirstName)
        last  == Get(data, LastName)
    IN  IF first.k # "str" \/ last.k # "str"
        THEN Raised
        ELSE Value(Strip(Strip(first.s) \o <<Space>> \o Strip(last.s)))

(***************************************************************************)
(* process_csv, lines 240-245: the output file name of a row.              *)
(***************************************************************************)
DotPdf == <<".", "p", "d", "f">>

order_number(row) == Strip(Str(Get(row, OrderNo)))

raw_filename(row) ==
    Strip(Str(Get(row, FirstName))) \o <<Space>>
        \o Strip(Str(Get(row, LastName))) \o <<Space>>
        \o order_number(row) \o DotPdf

safe_filename(row) == sanitize_filename(raw_filename(row))

(***************************************************************************)
(* validate_csv.                                                           *)
(***************************************************************************)
required_columns ==
    << "Order Number", "First Name (Billing)", "Last Name (Billing)",
       "Email (Billing)", "Phone (Billing)", "Item Name", "SKU",
       "Quantity (- Refund)", "Item Cost", "Order Total Amount" >>

\* a plausible slip: stop at the first missing column
validate_csv_first_only(columns) ==
    LET missing == SelectSeq(required_columns, LAMBDA col : col \notin columns)
    IN  IF missing = <<>> THEN <<>> ELSE <<Head(missing)>>

validate_csv(columns) ==
    SelectSeq(required_columns, LAMBDA col : col \notin columns)

(***************************************************************************)
(* The CSV files the form can be pointed at.  Of a row only the cells the  *)
(* file name and the combined name are built from, and one item cell that  *)
(* tells two rows of the same order apart, are modelled.                   *)
(***************************************************************************)
AllColumns == {required_columns[i] : i \in 1..Len(required_columns)}

CellColumns == {FirstName, LastName, OrderNo, ItemName}

Row(first, last, order, item) ==
    [c \in CellColumns |->
        CASE c = FirstName -> first
          [] c = LastName  -> last
          [] c = OrderNo   -> order
          [] c = ItemName  -> item]

Jane == StrCell(<<"J", "a", "n", "e">>)
Doe  == StrCell(<<"D", "o", "e">>)
Lee  == StrCell(<<"L", "e", "e">>)
AB   == StrCell(<<"A", "/", "B">>)
Pen  == StrCell(<<"P", "e", "n">>)
Ink  == StrCell(<<"I", "n", "k">>)

\* two line items of one order (same file name), an order whose name holds
\* a character that is invalid in file names, an order with an empty
\* first-name cell
RowJanePen == Row(Jane, Doe, IntCell(1001), Pen)
RowJaneInk == Row(Jane, Doe, IntCell(1001), Ink)
RowSlash   == Row(AB, Lee, IntCell(1002), Pen)
RowNoFirst == Row(NaN, Lee, IntCell(1003), Ink)

Rows == {RowJanePen, RowJaneInk, RowSlash, RowNoFirst}

\* the exports of at most n rows: no line of an export occurs twice in it
RECURSIVE RowSeqs(_)
RowSeqs(n) ==
    IF n = 0 THEN {<<>>}
    ELSE LET shorter == RowSeqs(n - 1)
         IN  shorter \cup
             {Append(p[1], p[2]) :
                 p \in {q \in shorter \X Rows :
                           \A i \in 1..Len(q[1]) : q[1][i] # q[2]}}

Restrict(row, columns) == [c \in (DOMAIN row) \cap columns |-> row[c]]

CsvFile(readable, columns, rows) ==
    [chosen |-> TRUE, readable |-> readable, columns |-> columns,
     rows |-> [i \in 1..Len(rows) |-> Restrict(rows[i], columns)]]

\* the entry is empty: csv_path_var.get() = ""
NoPath == [chosen |-> FALSE, readable |-> FALSE, columns |-> {}, rows |-> <<>>]

Unreadable == CsvFile(FALSE, {}, <<>>)

MissingSets == { {"SKU"}, {"Item Cost", "First Name (Billing)", "Email (Billing)"} }

Files ==
    {Unreadable}
        \cup {CsvFile(TRUE, AllColumns \ m, <<RowJanePen>>) : m \in MissingSets}
        \cup {CsvFile(TRUE, AllColumns, rows) : rows \in RowSeqs(MaxRows)}

(***************************************************************************)
(* State.                                                                  *)
(***************************************************************************)
VARIABLES
    stop_requested,     \* the global flag
    generate_button,    \* "normal" / "disabled"
    stop_button,
    open_folder_button,
    progress_label,
    progress_bar,       \* [value, maximum]
    output_folder,      \* whether "PDF Orders" exists
    disk,               \* the files in "PDF Orders": [name, doc]
    worker,             \* the worker threads: locals, position, and what
                        \* each run reported and wrote so far
    h_pc, h_data, h_raw, h_out   \* harness of the pure functions

vars == << stop_requested, generate_button, stop_button,
           open_folder_button, progress_label, progress_bar, output_folder,
           disk, worker, h_pc, h_data, h_raw, h_out >>

ui == << generate_button, stop_button, open_folder_button,
         progress_label, progress_bar >>

harness == << h_pc, h_data, h_raw, h_out >>

Workers == 1..MaxWorkers

Label(text) == [text |-> text, current |-> 0, total |-> 0]

\* nothing computed yet
NoOutput == [name |-> Raised, file |-> <<>>, once |-> <<>>, twice |-> <<>>]

NoThread ==
    [pc |-> "none", csv |-> NoPath, total_rows |-> 0, index |-> 0,
     order_number |-> <<>>, output_path |-> <<>>,
     progress |-> <<>>, reports |-> <<>>, rendered |-> <<>>,
     failed |-> {}, written |-> {}, late |-> 0,
     asked |-> FALSE, made |-> FALSE]

Init ==
    /\ stop_requested = FALSE
    /\ generate_button = "normal"
    /\ stop_button = "disabled"
    /\ open_folder_button = "disabled"
    /\ progress_label = Label("")
    /\ progress_bar = [value |-> 0, maximum |-> 100]
    /\ output_folder = FALSE
    /\ disk = {}
    /\ worker = [t \in Workers |-> NoThread]
    /\ h_pc = "off"
    /\ h_data = <<>>
    /\ h_raw = <<>>
    /\ h_out = NoOutput

(***************************************************************************)
(* The form's handlers.  They run on the Tk main loop, one at a time; the  *)
(* worker's widget calls are served by the same loop, so a handler is one  *)
(* step, while the worker's statements interleave with the handlers.       *)
(***************************************************************************)
Set(t, rec) == worker' = [worker EXCEPT ![t] = rec]

Free == {t \in Workers : worker[t].pc = "none"}

\* a thread that has not yet reached its last two statements
Running(w) == w.pc \notin {"none", "disable_stop"}

\* thread t is gone; worker lists the live threads in the order they started
Exit(t) ==
    worker' = [i \in Workers |->
                  IF i < t THEN worker[i]
                  ELSE IF i < MaxWorkers THEN worker[i + 1]
                  ELSE NoThread]

Live == Workers \ Free

\* start_process_csv: the controls are switched, the thread is started
\* (MaxWorkers caps the threads alive at once)
start_process_csv(csv_path) ==
    /\ Free # {}
    /\ LET t == CHOOSE x \in Free : \A y \in Free : x <= y
       IN  Set(t, [NoThread EXCEPT !.pc = "read", !.csv = csv_path])
    /\ generate_button' = "disabled"
    /\ stop_button' = "normal"
    /\ open_folder_button' = "disabled"

\* a slip: generate leaves the flag as it finds it
flag_kept(flag) == flag

\* line 302: stop_requested = False
flag_at_generate(flag) == FALSE

\* generate: the "Generate PDFs" button.  csv_path_var.get() is whatever
\* browse_file or the keyboard left in the entry: an input of the handler
generate ==
    /\ generate_button = "normal"
    /\ stop_requested' = flag_at_generate(stop_requested)
    /\ \E csv_path \in Files \cup {NoPath} :
          IF csv_path.chosen
          THEN start_process_csv(csv_path)
          ELSE \* "Please select a CSV file first."
               UNCHANGED << generate_button, stop_button, open_folder_button, worker >>
    /\ UNCHANGED << progress_label, progress_bar, output_folder, disk, harness >>

\* stop_process: the "Stop" button
stop_process ==
    /\ stop_button = "normal"
    /\ stop_requested' = TRUE
    /\ progress_label' = Label("Canceling...")
    /\ worker' = [t \in Workers |->
                    IF Running(worker[t]) THEN [worker[t] EXCEPT !.asked = TRUE]
                    ELSE worker[t]]
    /\ UNCHANGED << generate_button, stop_button,
                    open_folder_button, progress_bar, output_folder, disk,
                    harness >>

(***************************************************************************)
(* process_csv, statement by statement, for worker thread t.               *)
(***************************************************************************)
Report(title, about) == [title |-> title, about |-> about]

\* line 198 and the handler of its exception, lines 199-205
read_csv(t) ==
    LET w == worker[t] IN
    /\ w.pc = "read"
    /\ IF w.csv.readable
       THEN Set(t, [w EXCEPT !.pc = "validate"])
       ELSE Set(t, [w EXCEPT !.pc = "read_failed",
                             !.reports = Append(@, Report("CSV Error", <<"read">>))])
    /\ UNCHANGED << stop_requested, ui, output_folder, disk, harness >>

\* lines 212-218
check_columns(t) ==
    LET w == worker[t]
        missing_columns == validate_csv(w.csv.columns)
    IN
    /\ w.pc = "validate"
    /\ IF missing_columns # <<>>
       THEN Set(t, [w EXCEPT !.pc = "missing_columns",
                             !.reports = Append(@, Report("CSV Error", missing_columns))])
       ELSE Set(t, [w EXCEPT !.pc = "makedirs"])
    /\ UNCHANGED << stop_requested, ui, output_folder, disk, harness >>

\* lines 223-225: os.makedirs(exist_ok=True) succeeds when the folder is
\* there; creating it can fail (OSError), which nothing catches: the thread
\* dies with a traceback
makedirs(t) ==
    LET w == worker[t] IN
    /\ w.pc = "makedirs"
    /\ \/ /\ output_folder' = TRUE
          /\ Set(t, [w EXCEPT !.pc = "init_progress", !.made = TRUE])
       \/ /\ ~output_folder
          /\ output_folder' = FALSE
          /\ Set(t, [w EXCEPT !.pc = "raise",
                              !.reports = Append(@, Report("Traceback", <<"makedirs">>))])
    /\ UNCHANGED << stop_requested, ui, disk, harness >>

\* the uncaught exception ends the thread
thread_dies(t) ==
    /\ worker[t].pc = "raise"
    /\ Exit(t)
    /\ UNCHANGED << stop_requested, ui, output_folder, disk, harness >>

\* lines 227-229, and the loop's iterator is created
init_progress(t) ==
    LET w == worker[t] IN
    /\ w.pc = "init_progress"
    /\ Set(t, [w EXCEPT !.pc = "for", !.total_rows = Len(w.csv.rows), !.index = 0])
    /\ progress_bar' = [value |-> 0, maximum |-> Len(w.csv.rows)]
    /\ UNCHANGED << stop_requested, generate_button, stop_button,
                    open_folder_button, progress_label, output_folder, disk,
                    harness >>

\* slips: the flag is never honoured / a stale TRUE is read
cancel_never(flag) == FALSE

cancel_always(flag) == TRUE

\* line 232: the test of the flag
cancel_check(flag) == flag

\* a slip: the break is missing, the row is processed all the same
on_cancel_continue == "progress"

\* line 235: break, to the statements after the loop
on_cancel == "reset"

\* lines 231-235 and 259-263: the iterator yields the next row or is
\* exhausted (the for's else); a row is entered only after the flag is read
for_next(t) ==
    LET w == worker[t] IN
    /\ w.pc = "for"
    /\ IF w.index >= Len(w.csv.rows)
       THEN /\ progress_label' = Label("All PDFs generated successfully.")
            /\ open_folder_button' = "normal"
            /\ Set(t, [w EXCEPT !.pc = "reset",
                                !.reports = Append(@, Report("Success", <<>>))])
       ELSE IF cancel_check(stop_requested)
       THEN /\ progress_label' = Label("Operation canceled by user.")
            /\ Set(t, [w EXCEPT !.pc = on_cancel,
                                !.reports = Append(@, Report("Canceled", <<>>))])
            /\ UNCHANGED open_folder_button
       ELSE /\ Set(t, [w EXCEPT !.pc = "progress"])
            /\ UNCHANGED << progress_label, open_folder_button >>
    /\ UNCHANGED << stop_requested, generate_button, stop_button,
                    progress_bar, output_folder, disk, harness >>

\* a slip: the zero-based index is shown
record_number_zero_based(index) == index

\* lines 237-238: index + 1
record_number(index) == index + 1

\* lines 237-238
report_progress(t) ==
    LET w == worker[t] IN
    /\ w.pc = "progress"
    /\ progress_label' = [text |-> "Processing record",
                          current |-> record_number(w.index),
                          total |-> w.total_rows]
    /\ progress_bar' = [progress_bar EXCEPT !.value = record_number(w.index)]
    /\ Set(t, [w EXCEPT !.pc = "derive",
                        !.progress = Append(@, <<record_number(w.index), w.total_rows>>)])
    /\ UNCHANGED << stop_requested, generate_button, stop_button,
                    open_folder_button, output_folder, disk, harness >>

\* lines 240-248
derive_filename(t) ==
    LET w == worker[t]
        row == w.csv.rows[w.index + 1]
    IN
    /\ w.pc = "derive"
    /\ Set(t, [w EXCEPT !.pc = "render",
                        !.order_number = order_number(row),
                        !.output_path = safe_filename(row)])
    /\ UNCHANGED << stop_requested, ui, output_folder, disk, harness >>

\* line 251: generate_pdf is entered
render_begin(t) ==
    LET w == worker[t] IN
    /\ w.pc = "render"
    /\ Set(t, [w EXCEPT !.pc = "rendering", !.rendered = Append(@, w.index)])
    /\ UNCHANGED << stop_requested, ui, output_folder, disk, harness >>

\* the page generate_pdf lays out: header and the fields that are modelled
Document(data, number, name) ==
    [order_number |-> number, name |-> name,
     item |-> Strip(Str(Get(data, ItemName)))]

\* a slip: a file that is already there is kept (exclusive creation)
WriteFile_keep_first(files, name, doc) ==
    IF \E f \in files : f.name = name THEN files
    ELSE files \cup {[name |-> name, doc |-> doc]}

\* line 159: pdf.output(output_path) replaces what is at the path
WriteFile(files, name, doc) ==
    {f \in files : f.name # name} \cup {[name |-> name, doc |-> doc]}

\* a slip: the loop does not advance
next_index_stuck(i) == i

\* line 231: iterrows() yields the rows in order
next_index(i) == i + 1

\* a slip: the first failure ends the batch
on_render_error_abort == "reset"

\* lines 252-257: the exception is shown and swallowed, the loop goes on
on_render_error == "for"

\* lines 117-165 and 252-257: generate_pdf returns, having written the
\* file, or raises (the name is no str, the font or the path fails); the
\* error is shown by generate_pdf and again, with the order number (the
\* column is there: it is a required one), by process_csv, and the loop
\* goes on
render_end(t) ==
    LET w == worker[t]
        data == w.csv.rows[w.index + 1]
        name == full_name(data)
        shown == Str(Get(data, OrderNo))
    IN
    /\ w.pc = "rendering"
    /\ \/ /\ name.ok
          /\ disk' = WriteFile(disk, w.output_path,
                               Document(data, w.order_number, name.v))
          /\ Set(t, [w EXCEPT !.pc = "for", !.index = next_index(@),
                              !.written = @ \cup {w.output_path},
                              !.late = @ + (IF stop_requested THEN 1 ELSE 0)])
       \/ /\ disk' = disk
          /\ Set(t, [w EXCEPT !.pc = on_render_error, !.index = next_index(@),
                              !.failed = @ \cup {w.index},
                              !.reports = @ \o << Report("PDF Generation Error", <<>>),
                                                Report("Order Processing Error", shown) >>])
    /\ UNCHANGED << stop_requested, ui, output_folder, harness >>

\* line 266
reset_stop(t) ==
    LET w == worker[t] IN
    /\ w.pc = "reset"
    /\ stop_requested' = FALSE
    /\ Set(t, [w EXCEPT !.pc = "enable_generate"])
    /\ UNCHANGED << ui, output_folder, disk, harness >>

\* lines 207, 219 and 267; the thread's locals are not read again, so what
\* the model keeps of the run ends here
enable_generate(t) ==
    LET w == worker[t] IN
    /\ w.pc \in {"read_failed", "missing_columns", "enable_generate"}
    /\ generate_button' = "normal"
    /\ Set(t, [NoThread EXCEPT !.pc = "disable_stop"])
    /\ UNCHANGED << stop_requested, stop_button, open_folder_button,
                    progress_label, progress_bar, output_folder, disk, harness >>

\* lines 208-209, 220-221 and 268: the last statement; process_csv returns
\* and the thread ends
disable_stop(t) ==
    /\ worker[t].pc = "disable_stop"
    /\ stop_button' = "disabled"
    /\ Exit(t)
    /\ UNCHANGED << stop_requested, generate_button,
                    open_folder_button, progress_label, progress_bar,
                    output_folder, disk, harness >>

Step(t) ==
    \/ read_csv(t)
    \/ check_columns(t)
    \/ makedirs(t)
    \/ thread_dies(t)
    \/ init_progress(t)
    \/ for_next(t)
    \/ report_progress(t)
    \/ derive_filename(t)
    \/ render_begin(t)
    \/ render_end(t)
    \/ reset_stop(t)
    \/ enable_generate(t)
    \/ disable_stop(t)

Next ==
    \/ generate
    \/ stop_process
    \/ \E t \in Workers : Step(t)

Spec == Init /\ [][Next]_vars

(***************************************************************************)
(* The pure functions on their own: a record, or a raw file name, is drawn *)
(* and the functions are applied to it as process_csv and generate_pdf     *)
(* apply them.                                                             *)
(***************************************************************************)
RECURSIVE Strings(_, _)
Strings(alphabet, n) ==
    IF n = 0 THEN {<<>>}
    ELSE LET shorter == Strings(alphabet, n - 1)
         IN  shorter \cup {Append(s, c) : s \in shorter, c \in alphabet}

NameChars == {Space, "L", "e"}

RawChars == {"\\", "/", ":", "*", "?", "\"", "<", ">", "|", "A", "_", Space}

Absent == [k |-> "absent", s |-> <<>>, n |-> 0]

NameCells == {StrCell(s) : s \in Strings(NameChars, MaxLen)} \cup {NaN, Absent}

OrderCells == {IntCell(1001), NaN, StrCell(<<"7", "|", "a">>)}

\* the dict of a row; a key whose cell is Absent is not in it
Dict(first, last, order) ==
    LET cell == [c \in {FirstName, LastName, OrderNo} |->
                    CASE c = FirstName -> first
                      [] c = LastName  -> last
                      [] c = OrderNo   -> order]
    IN  [c \in {x \in DOMAIN cell : cell[x].k # "absent"} |-> cell[c]]

mainVars == << stop_requested, ui, output_folder, disk, worker >>

InitPure ==
    /\ stop_requested = FALSE
    /\ generate_button = "normal"
    /\ stop_button = "disabled"
    /\ open_folder_button = "disabled"
    /\ progress_label = Label("")
    /\ progress_bar = [value |-> 0, maximum |-> 100]
    /\ output_folder = FALSE
    /\ disk = {}
    /\ worker = [t \in Workers |-> NoThread]
    /\ h_out = NoOutput
    /\ \/ /\ h_pc = "record"
          /\ h_raw = <<>>
          /\ \E first \in NameCells, last \in NameCells, order \in OrderCells :
                h_data = Dict(first, last, order)
       \/ /\ h_pc = "raw"
          /\ h_data = <<>>
          /\ h_raw \in Strings(RawChars, MaxLen)

\* generate_pdf, lines 124-125, on the record
call_full_name ==
    /\ h_pc = "record"
    /\ h_pc' = "named"
    /\ h_out' = [h_out EXCEPT !.name = full_name(h_data)]
    /\ UNCHANGED << mainVars, h_data, h_raw >>

\* process_csv, lines 240-245, on the record
call_filename ==
    /\ h_pc = "named"
    /\ h_pc' = "filed"
    /\ h_out' = [h_out EXCEPT !.file = safe_filename(h_data)]
    /\ UNCHANGED << mainVars, h_data, h_raw >>

\* sanitize_filename on the raw name
call_sanitize ==
    /\ h_pc = "raw"
    /\ h_pc' = "once"
    /\ h_out' = [h_out EXCEPT !.once = sanitize_filename(h_raw)]
    /\ UNCHANGED << mainVars, h_data, h_raw >>

\* sanitize_filename on its own result
call_sanitize_again ==
    /\ h_pc = "once"
    /\ h_pc' = "twice"
    /\ h_out' = [h_out EXCEPT !.twice = sanitize_filename(h_out.once)]
    /\ UNCHANGED << mainVars, h_data, h_raw >>

NextPure ==
    \/ call_full_name
    \/ call_filename
    \/ call_sanitize
    \/ call_sanitize_again

SpecPure == InitPure /\ [][NextPure]_vars

(***************************************************************************)
(* What the properties speak of.                                           *)
(***************************************************************************)
Titles(w) == [i \in 1..Len(w.reports) |-> w.reports[i].title]

\* the terminal statuses a run has reported: Completed ("Success"),
\* Canceled, Failed ("CSV Error", or the traceback of the dying thread)
Terminal(w) ==
    SelectSeq(Titles(w),
              LAMBDA x : x \in {"Success", "Canceled", "CSV Error", "Traceback"})

Reported(w, title) == \E i \in 1..Len(w.reports) : w.reports[i].title = title

\* the run has left the loop and still holds its results
AfterLoop(w) == w.pc \in {"reset", "enable_generate"}

InLoop(w) == w.pc \in {"for", "progress", "derive", "render", "rendering"}

RowCount(w) == Len(w.csv.rows)

\* the file names derived from the rows with the (zero-based) indices in I
Names(w, I) == {safe_filename(w.csv.rows[i + 1]) : i \in I}

DiskNames == {f.name : f \in disk}

Success == Label("All PDFs generated successfully.")

(***************************************************************************)
(* C1, as stated: a run over a valid file of N rows, with no stop request  *)
(* and no failed render, ends with exactly N output files, a processed     *)
(* count of N and the status Completed.                                    *)
(* It fails when two rows derive the same file name.                       *)
(***************************************************************************)
C1_ExactlyNFiles ==
    \A t \in Workers :
        LET w == worker[t] IN
        (AfterLoop(w) /\ ~w.asked /\ w.failed = {}) =>
            /\ Cardinality(w.written) = RowCount(w)
            /\ w.written \subseteq DiskNames
            /\ progress_bar.value = RowCount(w)
            /\ Terminal(w) = <<"Success">>
            /\ progress_label = Success

(***************************************************************************)
(* C1, amended: such a run ends with one output file per distinct derived  *)
(* file name (exactly N files when the N names are pairwise distinct), a   *)
(* processed count of N and the status Completed.                          *)
(***************************************************************************)
C1_OneFilePerName ==
    \A t \in Workers :
        LET w == worker[t]
            names == Names(w, 0..(RowCount(w) - 1))
        IN
        (AfterLoop(w) /\ ~w.asked /\ w.failed = {}) =>
            /\ w.written = names
            /\ (Cardinality(names) = RowCount(w) => Cardinality(w.written) = RowCount(w))
            /\ w.written \subseteq DiskNames
            /\ progress_bar.value = RowCount(w)
            /\ Terminal(w) = <<"Success">>
            /\ progress_label = Success

\* a completed run over three rows, two of them with the same file name
C1_Witness ==
    \E t \in Workers :
        LET w == worker[t] IN
        /\ AfterLoop(w) /\ ~w.asked /\ w.failed = {}
        /\ RowCount(w) = 3
        /\ Cardinality(w.written) = 2
        /\ Terminal(w) = <<"Success">>

(***************************************************************************)
(* C2: a run over a file that lacks required columns goes straight to      *)
(* Failed: it reports one error naming every missing column in the order   *)
(* of the required list, processes no row, writes no file and does not     *)
(* create the output folder.                                               *)
(***************************************************************************)
Lacking(csv) == {c \in AllColumns : c \notin csv.columns}

\* the columns of miss, listed in the order of the required list
RECURSIVE InRequiredOrder(_, _)
InRequiredOrder(miss, i) ==
    IF i > Len(required_columns) THEN <<>>
    ELSE (IF required_columns[i] \in miss THEN <<required_columns[i]>> ELSE <<>>)
             \o InRequiredOrder(miss, i + 1)

C2_MissingColumnsFail ==
    \A t \in Workers :
        LET w == worker[t] IN
        (Running(w) /\ w.csv.readable /\ Lacking(w.csv) # {}
                    /\ w.pc \notin {"read", "validate"}) =>
            /\ w.pc = "missing_columns"
            /\ w.reports = << Report("CSV Error", InRequiredOrder(Lacking(w.csv), 1)) >>
            /\ Terminal(w) = <<"CSV Error">>
            /\ w.progress = <<>>
            /\ w.rendered = <<>>
            /\ w.written = {}
            /\ ~w.made

\* the file that lacks three columns has been rejected
C2_Witness ==
    \E t \in Workers :
        LET w == worker[t] IN
        /\ w.pc = "missing_columns"
        /\ Cardinality(Lacking(w.csv)) = 3
        /\ Len(w.reports[1].about) = 3

(***************************************************************************)
(* C3, as stated: a run that sees the stop flag after k of its N rows      *)
(* (k < N, no failed render) leaves the loop at once, with exactly k       *)
(* output files, all on disk, and the status Canceled.                     *)
(* It fails when two of the k rows derive the same file name.              *)
(***************************************************************************)
C3_ExactlyKFiles ==
    \A t \in Workers :
        LET w == worker[t] IN
        (Running(w) /\ Reported(w, "Canceled") /\ w.failed = {}) =>
            /\ AfterLoop(w)
            /\ Terminal(w) = <<"Canceled">>
            /\ w.index < RowCount(w)
            /\ Len(w.rendered) = w.index
            /\ Cardinality(w.written) = w.index
            /\ w.written \subseteq DiskNames

(***************************************************************************)
(* C3, amended: such a run leaves the loop at once, with one output file   *)
(* per distinct file name derived from its first k rows (exactly k files   *)
(* when these names are pairwise distinct), all on disk, and the status    *)
(* Canceled; no row after the k-th is rendered.                            *)
(***************************************************************************)
C3_CanceledAfterK ==
    \A t \in Workers :
        LET w == worker[t]
            names == Names(w, 0..(w.index - 1))
        IN
        (Running(w) /\ Reported(w, "Canceled") /\ w.failed = {}) =>
            /\ AfterLoop(w)
            /\ Terminal(w) = <<"Canceled">>
            /\ w.index < RowCount(w)
            /\ Len(w.rendered) = w.index
            /\ w.written = names
            /\ (Cardinality(names) = w.index => Cardinality(w.written) = w.index)
            /\ w.written \subseteq DiskNames

\* canceled after two of three rows, two files written
C3_Witness ==
    \E t \in Workers :
        LET w == worker[t] IN
        /\ AfterLoop(w) /\ Terminal(w) = <<"Canceled">> /\ w.failed = {}
        /\ w.index = 2 /\ RowCount(w) = 3
        /\ Cardinality(w.written) = 2

(***************************************************************************)
(* C4: a failed render is not fatal: the row writes no file, one error     *)
(* naming its order number is reported for it and for no other row, the    *)
(* loop goes on to the next row, and every row whose render does not fail  *)
(* has its file written; only a stop request ends the loop early.          *)
(***************************************************************************)
\* the order numbers shown for the failed rows among the first n, in order
RECURSIVE FailedOrders(_, _)
FailedOrders(w, n) ==
    IF n = 0 THEN <<>>
    ELSE FailedOrders(w, n - 1)
             \o (IF (n - 1) \in w.failed
                 THEN <<Str(Get(w.csv.rows[n], OrderNo))>> ELSE <<>>)

ErrorsShown(w) ==
    LET errs == SelectSeq(w.reports, LAMBDA r : r.title = "Order Processing Error")
    IN  [i \in 1..Len(errs) |-> errs[i].about]

C4_FailureNotFatal ==
    \A t \in Workers :
        LET w == worker[t] IN
        (InLoop(w) \/ AfterLoop(w)) =>
            /\ w.failed \subseteq 0..(w.index - 1)
            /\ w.written = Names(w, (0..(w.index - 1)) \ w.failed)
            /\ w.written \subseteq DiskNames
            /\ ErrorsShown(w) = FailedOrders(w, w.index)
            /\ (AfterLoop(w) /\ ~Reported(w, "Canceled")) =>
                  /\ w.index = RowCount(w)
                  /\ Terminal(w) = <<"Success">>

\* a completed run in which a render failed and a later row was written
C4_Witness ==
    \E t \in Workers :
        LET w == worker[t] IN
        /\ AfterLoop(w) /\ Terminal(w) = <<"Success">>
        /\ \E i \in w.failed :
              \E j \in (i + 1)..(RowCount(w) - 1) :
                  j \notin w.failed /\ safe_filename(w.csv.rows[j + 1]) \in w.written

(***************************************************************************)
(* C5, as stated: at most one worker thread is alive at any time.          *)
(* It fails: the worker enables "Generate PDFs" (lines 207, 219, 267)      *)
(* before its last statement, and a click in between starts a second       *)
(* thread, whose Stop button the first thread then disables.               *)
(***************************************************************************)
C5_OneWorker == Cardinality(Live) <= 1

(***************************************************************************)
(* C6: cancellation is cooperative.  A render that has begun ends by       *)
(* writing its file or by failing, whatever the flag says, and the flag is *)
(* honoured only between rows: while it is set, a run writes at most one   *)
(* more file, and Canceled is reported only with no render in progress.    *)
(***************************************************************************)
C6_Cooperative ==
    \A t \in Workers :
        LET w == worker[t] IN
        (InLoop(w) \/ AfterLoop(w)) =>
            /\ w.late <= 1
            /\ Len(w.rendered) = w.index + (IF w.pc = "rendering" THEN 1 ELSE 0)
            /\ \A i \in 0..(w.index - 1) :
                  i \in w.failed \/ safe_filename(w.csv.rows[i + 1]) \in w.written
            /\ Reported(w, "Canceled") => (AfterLoop(w) /\ w.asked)

\* the stop request came during a render, which wrote its file before the
\* run was canceled
C6_Witness ==
    \E t \in Workers :
        LET w == worker[t] IN
        /\ AfterLoop(w) /\ Reported(w, "Canceled")
        /\ w.late = 1
        /\ w.index = 2

(***************************************************************************)
(* C7: a run is Running until it reports exactly one terminal status.  A   *)
(* run that handled its last row, or whose file has no rows, is Completed; *)
(* Completed is never reported by a run that was canceled, and Canceled    *)
(* only by a run during which Stop was requested, with rows left.          *)
(***************************************************************************)
C7_OneTerminalStatus ==
    \A t \in Workers :
        LET w == worker[t]
            ended == w.pc \in {"read_failed", "missing_columns", "raise",
                               "reset", "enable_generate"}
        IN
        Running(w) =>
            /\ Len(Terminal(w)) = (IF ended THEN 1 ELSE 0)
            /\ (w.pc \in {"read_failed", "missing_columns", "raise"})
                  <=> (ended /\ Terminal(w)[1] \in {"CSV Error", "Traceback"})
            /\ AfterLoop(w) =>
                  /\ Terminal(w)[1] \in {"Success", "Canceled"}
                  /\ Terminal(w)[1] = "Success" <=> w.index = RowCount(w)
                  /\ Terminal(w)[1] = "Canceled" => (w.asked /\ w.index < RowCount(w))
                  /\ RowCount(w) = 0 => Terminal(w) = <<"Success">>

\* a run over a file without rows has completed
C7_Witness ==
    \E t \in Workers :
        LET w == worker[t] IN
        /\ AfterLoop(w) /\ RowCount(w) = 0
        /\ Terminal(w) = <<"Success">>
        /\ w.asked

(***************************************************************************)
(* C8: the rows are processed in input order, one at a time.  The progress *)
(* reports of a run are (1,N), (2,N), ..., never beyond N; the report of a *)
(* row follows its cancel check and precedes its file name and its render; *)
(* the renders begin in row order, each after the one before has ended.    *)
(***************************************************************************)
C8_InOrder ==
    \A t \in Workers :
        LET w == worker[t] IN
        (InLoop(w) \/ AfterLoop(w)) =>
            /\ Len(w.progress) <= RowCount(w)
            /\ \A i \in 1..Len(w.progress) : w.progress[i] = <<i, RowCount(w)>>
            /\ Len(w.progress) =
                  w.index + (IF w.pc \in {"derive", "render", "rendering"} THEN 1 ELSE 0)
            /\ \A i \in 1..Len(w.rendered) : w.rendered[i] = i - 1
            /\ Len(w.rendered) = w.index + (IF w.pc = "rendering" THEN 1 ELSE 0)
            /\ w.pc \in {"render", "rendering"} =>
                  w.output_path = safe_filename(w.csv.rows[w.index + 1])
            /\ progress_bar.value <= progress_bar.maximum

\* the third row of three is being rendered
C8_Witness ==
    \E t \in Workers :
        LET w == worker[t] IN
        /\ w.pc = "rendering"
        /\ w.progress = << <<1, 3>>, <<2, 3>>, <<3, 3>> >>
        /\ w.rendered = <<0, 1, 2>>

(***************************************************************************)
(* C9, as stated: the combined name of a record is its trimmed first name, *)
(* a space and its trimmed last name, trimmed again, where a name that is  *)
(* absent or empty counts as the empty string and raises nothing; so the   *)
(* name never begins or ends with whitespace (first empty, last "Lee"      *)
(* gives "Lee").                                                           *)
(* It fails: the empty cell of a CSV is read as NaN, a float, and          *)
(* line 124 calls .strip() on it.                                          *)
(***************************************************************************)
\* the text of a name component: empty when the key is absent or the cell
\* is empty
NameText(data, key) ==
    IF key \notin DOMAIN data \/ data[key].k = "nan" THEN <<>> ELSE data[key].s

C9_FullName ==
    h_pc \in {"named", "filed"} =>
        LET expected == Strip(Strip(NameText(h_data, FirstName)) \o <<Space>>
                                  \o Strip(NameText(h_data, LastName)))
        IN  /\ h_out.name.ok
            /\ h_out.name.v = expected
            /\ h_out.name.v # <<>> =>
                  /\ Head(h_out.name.v) \notin Whitespace
                  /\ h_out.name.v[Len(h_out.name.v)] \notin Whitespace
            /\ (NameText(h_data, FirstName) = <<>>
                    /\ NameText(h_data, LastName) = <<"L", "e", "e">>)
                  => h_out.name.v = <<"L", "e", "e">>

(***************************************************************************)
(* C10: sanitize_filename replaces every \ / : * ? " < > | by _ and leaves *)
(* every other character, and the length, as they are (A/B"C gives A_B_C); *)
(* the file name the batch derives for a record holds none of these        *)
(* characters; sanitizing the result again changes nothing.                *)
(***************************************************************************)
Forbidden == {"\\", "/", ":", "*", "?", "\"", "<", ">", "|"}

C10_Sanitize ==
    /\ sanitize_filename(<<"A", "/", "B", "\"", "C">>) = <<"A", "_", "B", "_", "C">>
    /\ h_pc \in {"once", "twice"} =>
          /\ Len(h_out.once) = Len(h_raw)
          /\ \A i \in 1..Len(h_raw) :
                h_out.once[i] = (IF h_raw[i] \in Forbidden THEN "_" ELSE h_raw[i])
    /\ h_pc = "twice" => h_out.twice = h_out.once
    /\ h_pc = "filed" =>
          \A i \in 1..Len(h_out.file) : h_out.file[i] \notin Forbidden

\* a raw name with two of the characters has been sanitized twice
C10_Witness ==
    /\ h_pc = "twice"
    /\ h_raw = <<"/", "A", "\"">>
    /\ h_out.twice = <<"_", "A", "_">>

(***************************************************************************)
(* C11: when rows of one run derive the same file name, the last write     *)
(* wins, silently: the path holds the document of the last row with that   *)
(* name whose render succeeded, nothing is reported for the overwrite, and *)
(* the run has written as many files as there are distinct file names      *)
(* among its successfully rendered rows.                                   *)
(***************************************************************************)
\* the rows (zero-based) handled so far whose render succeeded
Succeeded(w) == (0..(w.index - 1)) \ w.failed

\* the last of them that derives the file name
LastWith(w, name) ==
    CHOOSE i \in Succeeded(w) :
        /\ safe_filename(w.csv.rows[i + 1]) = name
        /\ \A j \in Succeeded(w) :
              safe_filename(w.csv.rows[j + 1]) = name => j <= i

\* the page of a row
PageOf(row) ==
    [order_number |-> Strip(Str(row[OrderNo])),
     name |-> Strip(Strip(row[FirstName].s) \o <<Space>> \o Strip(row[LastName].s)),
     item |-> Strip(Str(row[ItemName]))]

C11_LastWriteWins ==
    /\ \A f \in disk : \A g \in disk : f.name = g.name => f = g
    /\ \A t \in Workers :
          LET w == worker[t] IN
          (InLoop(w) \/ AfterLoop(w)) =>
              /\ Cardinality(w.written) = Cardinality(Names(w, Succeeded(w)))
              /\ \A name \in Names(w, Succeeded(w)) :
                    [name |-> name, doc |-> PageOf(w.csv.rows[LastWith(w, name) + 1])]
                        \in disk
              /\ Len(w.reports) =
                    2 * Cardinality(w.failed) + (IF AfterLoop(w) THEN 1 ELSE 0)

\* both line items of the order were rendered; the file holds the second
C11_Witness ==
    \E t \in Workers :
        LET w == worker[t] IN
        /\ AfterLoop(w) /\ w.failed = {}
        /\ w.csv.rows = <<RowJanePen, RowJaneInk>>
        /\ Cardinality(w.written) = 1
        /\ \E f \in disk : f.name \in w.written /\ f.doc.item = Ink.s

(***************************************************************************)
(* C12: a stop request does not leak into a later run.  Whatever a Stop    *)
(* click left in the flag before a run's Generate (a click after the       *)
(* worker's reset at line 266, or during a run that ended on the read or   *)
(* missing-column path, which do not reset), the flag a run reads at its   *)
(* cancel checks, the first one included, is set only if Stop was          *)
(* requested after that run's Generate.                                    *)
(***************************************************************************)
BeforeReset(w) ==
    w.pc \in {"read", "validate", "makedirs", "init_progress",
              "for", "progress", "derive", "render", "rendering"}

C12_NoStaleStop ==
    \A t \in Workers :
        LET w == worker[t] IN
        BeforeReset(w) => (stop_requested => w.asked)

\* a run is at its first cancel check, the flag clear, while the label
\* still shows the "Canceling..." of a Stop click from before its Generate
C12_Witness ==
    \E t \in Workers :
        LET w == worker[t] IN
        /\ w.pc = "for" /\ w.index = 0 /\ RowCount(w) > 0
        /\ ~w.asked
        /\ progress_label = Label("Canceling...")
        /\ ~stop_requested

(***************************************************************************)
(* C13, as stated: on every way a worker can finish (read failure, missing *)
(* columns, creation of the output folder, cancel, completion) Generate is *)
(* enabled again and Stop disabled, so that there is never no worker left  *)
(* and Generate still disabled.                                            *)
(* It fails: an OSError of os.makedirs (line 225) is caught nowhere; the   *)
(* thread dies before lines 267-268 and the form stays locked.             *)
(***************************************************************************)
C13_ControlsRestored ==
    Live = {} => (generate_button = "normal" /\ stop_button = "disabled")

(***************************************************************************)
(* The rest of C13 holds: "Open Output Folder" is enabled only by the step *)
(* in which a run reports Completed.                                       *)
(***************************************************************************)
OpenFolderOnlyOnSuccess ==
    [][ (open_folder_button = "disabled" /\ open_folder_button' = "normal") =>
            \E t \in Workers :
                /\ worker[t].pc = "for"
                /\ worker'[t].pc = "reset"
                /\ Terminal(worker'[t]) = <<"Success">> ]_vars

====
